---- MODULE Spec2Model ----
(***************************************************************************)
(* Model of src/src/moments/covariance.rs: the CoVariance estimator, a     *)
(* single-pass (Welford) accumulator of the means, variances and the       *)
(* covariance of a stream of (x, y) pairs.                                 *)
(*                                                                         *)
(* f64 values are modelled bit for bit: IEEE-754 binary64 with             *)
(* round-to-nearest-even, signed zeros, subnormals, infinities and NaN.    *)
(* The significands need 53 bits, so they are kept as big integers.        *)
(*                                                                         *)
(* The Mean estimator (avg_x, avg_y) is not part of the source files; it   *)
(* is modelled from its contract in the specification (section 6).         *)
(***************************************************************************)
EXTENDS Integers, Sequences, FiniteSets, TLC

VARIABLES avg_x, avg_y, sum_2, sum_2_x, sum_2_y, samples, ret, panicked

vars == <<avg_x, avg_y, sum_2, sum_2_x, sum_2_y, samples, ret, panicked>>

(* Largest number of add calls explored. *)
MaxAdds == 4

(* The values a sample coordinate is drawn from. *)
SampleValues == {-1, 0}

(* The constants x is shifted by in the offset-invariance property. *)
Offsets == {100, -7, 100000000}

(* Largest number of add calls explored with extreme samples. *)
MaxExtremeAdds == 2

----------------------------------------------------------------------------
(* Unsigned big integers: little-endian sequences of limbs below Limb,     *)
(* without leading zero limbs; <<>> is 0.  They carry the 53-bit           *)
(* significands of f64 and the exact intermediate results.                 *)

(* Bits per limb and the limb base 2^LimbBits. *)
LimbBits == 14

Limb == 16384

Max(i, j) == IF i >= j THEN i ELSE j

Min(i, j) == IF i <= j THEN i ELSE j

Abs(i) == IF i < 0 THEN -i ELSE i

RECURSIVE BFromInt(_)
BFromInt(i) == IF i = 0 THEN <<>> ELSE <<i % Limb>> \o BFromInt(i \div Limb)

RECURSIVE BTrim(_)
BTrim(a) ==
  IF a = <<>> THEN <<>>
  ELSE IF a[Len(a)] = 0 THEN BTrim(SubSeq(a, 1, Len(a) - 1))
  ELSE a

(* Limb i of a, 0 beyond its length. *)
BL(a, i) == IF i <= Len(a) THEN a[i] ELSE 0

(* Carry propagation over columns that may lie outside 0..Limb-1. *)
RECURSIVE BCarry(_, _, _)
BCarry(c, i, carry) ==
  IF i > Len(c) THEN BFromInt(carry)
  ELSE <<(c[i] + carry) % Limb>> \o BCarry(c, i + 1, (c[i] + carry) \div Limb)

BAdd(a, b) ==
  BCarry([i \in 1..Max(Len(a), Len(b)) |-> BL(a, i) + BL(b, i)], 1, 0)

(* a - b for a >= b. *)
BSub(a, b) == BTrim(BCarry([i \in 1..Len(a) |-> a[i] - BL(b, i)], 1, 0))

(* -1, 0 or 1 as a is below, equal to or above b. *)
RECURSIVE BCmpFrom(_, _, _)
BCmpFrom(a, b, i) ==
  IF i = 0 THEN 0
  ELSE IF a[i] < b[i] THEN -1
  ELSE IF a[i] > b[i] THEN 1
  ELSE BCmpFrom(a, b, i - 1)

BCmp(a, b) ==
  IF Len(a) < Len(b) THEN -1
  ELSE IF Len(a) > Len(b) THEN 1
  ELSE BCmpFrom(a, b, Len(a))

(* Column k of the product: the sum of a[i] * b[k + 1 - i].  One operand   *)
(* has at most 7 limbs, so a column stays below 2^31.                      *)
RECURSIVE BColumn(_, _, _, _)
BColumn(a, b, k, i) ==
  IF i > Len(a) \/ i > k THEN 0
  ELSE a[i] * b[k + 1 - i] + BColumn(a, b, k, i + 1)

BMul(a, b) ==
  IF a = <<>> \/ b = <<>> THEN <<>>
  ELSE BCarry([k \in 1..(Len(a) + Len(b) - 1) |->
                 BColumn(a, b, k, Max(1, k + 1 - Len(b)))], 1, 0)

(* a * 2^n. *)
BShl(a, n) ==
  IF a = <<>> THEN <<>>
  ELSE [i \in 1..(n \div LimbBits) |-> 0]
       \o BCarry([i \in 1..Len(a) |-> a[i] * 2^(n % LimbBits)], 1, 0)

(* floor(a / 2^n). *)
BShr(a, n) ==
  LET q == n \div LimbBits
      r == n % LimbBits
  IN IF Len(a) <= q THEN <<>>
     ELSE BTrim([i \in 1..(Len(a) - q) |->
                   (a[q + i] \div 2^r) + (BL(a, q + i + 1) % 2^r) * 2^(LimbBits - r)])

(* Bit n of a. *)
BBit(a, n) == (BL(a, n \div LimbBits + 1) \div 2^(n % LimbBits)) % 2

(* Whether a mod 2^n is not 0. *)
BLowNonzero(a, n) ==
  \/ \E i \in 1..Min(n \div LimbBits, Len(a)) : a[i] # 0
  \/ BL(a, n \div LimbBits + 1) % 2^(n % LimbBits) # 0

RECURSIVE IntBitLen(_)
IntBitLen(x) == IF x = 0 THEN 0 ELSE 1 + IntBitLen(x \div 2)

BitLen(a) ==
  IF a = <<>> THEN 0 ELSE LimbBits * (Len(a) - 1) + IntBitLen(a[Len(a)])

RECURSIVE IntTrailingZeros(_)
IntTrailingZeros(x) == IF x % 2 = 1 THEN 0 ELSE 1 + IntTrailingZeros(x \div 2)

(* The number of trailing zero bits of a # 0. *)
RECURSIVE BTrailingZeros(_, _)
BTrailingZeros(a, i) ==
  IF a[i] = 0 THEN LimbBits + BTrailingZeros(a, i + 1)
  ELSE IntTrailingZeros(a[i])

(* Division by a single limb d: <<remainder, quotient limbs...>>. *)
RECURSIVE BDivLimb(_, _, _, _)
BDivLimb(a, d, i, rem) ==
  IF i > Len(a) THEN <<rem>>
  ELSE LET r == BDivLimb(a, d, i + 1, rem)
           t == r[1] * Limb + a[i]
       IN <<t % d, t \div d>> \o Tail(r)

(* The largest q in lo..hi with d * q <= cur. *)
RECURSIVE BQuotientLimb(_, _, _, _)
BQuotientLimb(cur, d, lo, hi) ==
  IF lo = hi THEN lo
  ELSE IF BCmp(BMul(d, BFromInt((lo + hi + 1) \div 2)), cur) <= 0
       THEN BQuotientLimb(cur, d, (lo + hi + 1) \div 2, hi)
       ELSE BQuotientLimb(cur, d, lo, (lo + hi + 1) \div 2 - 1)

(* Long division of the limbs i.. of a by d, a limb at a time:             *)
(* [r |-> remainder, q |-> quotient limbs].                                *)
RECURSIVE BDivLong(_, _, _)
BDivLong(a, d, i) ==
  IF i > Len(a) THEN [r |-> <<>>, q |-> <<>>]
  ELSE LET h   == BDivLong(a, d, i + 1)
           cur == BTrim(<<a[i]>> \o h.r)
           qd  == BQuotientLimb(cur, d, 0, Limb - 1)
       IN [r |-> BSub(cur, BMul(d, BFromInt(qd))), q |-> <<qd>> \o h.q]

(* [r |-> a mod d, q |-> floor(a / d)] for d # 0. *)
BDivMod(a, d) ==
  IF Len(d) = 1
  THEN LET t == BDivLimb(a, d[1], 1, 0)
       IN [r |-> BFromInt(t[1]), q |-> BTrim(Tail(t))]
  ELSE LET t == BDivLong(a, d, 1)
       IN [r |-> t.r, q |-> BTrim(t.q)]

----------------------------------------------------------------------------
(* f64: IEEE-754 binary64 with round-to-nearest-even.  A finite value is   *)
(* (-1)^s * m * 2^e with the significand m an odd big integer below 2^53   *)
(* (or 0, with e = 0), so every value has one representation.              *)

(* Significand bits, the exponent of the smallest subnormal and the        *)
(* exponent at which values overflow to infinity.                          *)
MantBits == 53

MinExp == -1074

MaxExp == 1024

Fin(s, m, e) == [k |-> "fin", s |-> s, m |-> m, e |-> e]

FZero(s) == Fin(s, <<>>, 0)

Inf(s) == [k |-> "inf", s |-> s, m |-> <<>>, e |-> 0]

NaN == [k |-> "nan", s |-> 0, m |-> <<>>, e |-> 0]

(* The outcome of a call that panicked and returned no value. *)
Panic == [k |-> "panic", s |-> 0, m |-> <<>>, e |-> 0]

Zero == FZero(0)

One == Fin(0, <<1>>, 0)

IsFinite(a) == a.k = "fin"

IsNaN(a) == a.k = "nan"

IsZero(a) == a.k = "fin" /\ a.m = <<>>

SignXor(a, b) == IF a.s = b.s THEN 0 ELSE 1

(* The value (-1)^s * m * 2^e, m within 53 bits and e >= MinExp, in its    *)
(* one representation; infinity when it reaches 2^MaxExp.                  *)
Pack(s, m, e) ==
  IF m = <<>> THEN FZero(s)
  ELSE LET tz == BTrailingZeros(m, 1)
           mm == BShr(m, tz)
       IN IF BitLen(mm) + e + tz > MaxExp THEN Inf(s) ELSE Fin(s, mm, e + tz)

(* (-1)^s * (M + f) * 2^e rounded to nearest, ties to even, where          *)
(* 0 <= f < 1 and f # 0 exactly when sticky.                               *)
Round(s, M, e, sticky) ==
  LET q  == Max(BitLen(M) + e - MantBits, MinExp)
      sh == q - e
  IN IF sh <= 0 THEN Pack(s, M, e)
     ELSE LET m0   == BShr(M, sh)
              half == BBit(M, sh - 1) = 1
              rest == sticky \/ BLowNonzero(M, sh - 1)
              odd  == BBit(m0, 0) = 1
          IN Pack(s, IF half /\ (rest \/ odd) THEN BAdd(m0, <<1>>) ELSE m0, q)

(* The position above the top bit of a finite non-zero value. *)
Top(a) == BitLen(a.m) + a.e

FNeg(a) == IF IsNaN(a) THEN NaN ELSE [a EXCEPT !.s = 1 - a.s]

(* a + b for finite non-zero a, b with b below an eighth of a's unit in    *)
(* the last place: b only decides the direction of rounding.               *)
AddFar(a, b) ==
  LET e1 == Top(a) - MantBits - 3
      A  == BShl(a.m, a.e - e1)
  IN Round(a.s, IF a.s = b.s THEN A ELSE BSub(A, <<1>>), e1, TRUE)

(* The exact sum of (-1)^s m 2^e numbers as [s, m, e], m of any size. *)
XAdd(a, b) ==
  LET e1 == Min(a.e, b.e)
      A  == BShl(a.m, a.e - e1)
      Bb == BShl(b.m, b.e - e1)
      c  == BCmp(A, Bb)
  IN IF a.s = b.s THEN Fin(a.s, BAdd(A, Bb), e1)
     ELSE IF c = 0 THEN Fin(0, <<>>, e1)
     ELSE IF c > 0 THEN Fin(a.s, BSub(A, Bb), e1)
     ELSE Fin(b.s, BSub(Bb, A), e1)

(* a + b for finite non-zero a, b, computed exactly and rounded once; an   *)
(* exact zero sum is +0.0.                                                 *)
AddNear(a, b) ==
  LET x == XAdd(a, b)
  IN IF x.m = <<>> THEN Zero ELSE Round(x.s, x.m, x.e, FALSE)

FAdd(a, b) ==
  IF IsNaN(a) \/ IsNaN(b) THEN NaN
  ELSE IF ~IsFinite(a) /\ ~IsFinite(b) THEN (IF a.s = b.s THEN a ELSE NaN)
  ELSE IF ~IsFinite(a) THEN a
  ELSE IF ~IsFinite(b) THEN b
  ELSE IF IsZero(a) /\ IsZero(b) THEN FZero(IF a.s = 1 /\ b.s = 1 THEN 1 ELSE 0)
  ELSE IF IsZero(a) THEN b
  ELSE IF IsZero(b) THEN a
  ELSE IF Top(b) <= Top(a) - MantBits - 3 THEN AddFar(a, b)
  ELSE IF Top(a) <= Top(b) - MantBits - 3 THEN AddFar(b, a)
  ELSE AddNear(a, b)

FSub(a, b) == FAdd(a, FNeg(b))

FMul(a, b) ==
  IF IsNaN(a) \/ IsNaN(b) THEN NaN
  ELSE IF ~IsFinite(a) \/ ~IsFinite(b)
       THEN (IF IsZero(a) \/ IsZero(b) THEN NaN ELSE Inf(SignXor(a, b)))
  ELSE IF IsZero(a) \/ IsZero(b) THEN FZero(SignXor(a, b))
  ELSE Round(SignXor(a, b), BMul(a.m, b.m), a.e + b.e, FALSE)

(* a / b for finite non-zero a, b: a quotient of at least 56 bits and      *)
(* whether a remainder is left, rounded once.                              *)
DivFinite(a, b) ==
  IF b.m = <<1>> THEN Round(SignXor(a, b), a.m, a.e - b.e, FALSE)
  ELSE LET k  == Max(0, MantBits + 3 + BitLen(b.m) - BitLen(a.m))
           qr == BDivMod(BShl(a.m, k), b.m)
       IN Round(SignXor(a, b), qr.q, a.e - b.e - k, qr.r # <<>>)

FDiv(a, b) ==
  IF IsNaN(a) \/ IsNaN(b) THEN NaN
  ELSE IF ~IsFinite(a) /\ ~IsFinite(b) THEN NaN
  ELSE IF ~IsFinite(a) THEN Inf(SignXor(a, b))
  ELSE IF ~IsFinite(b) THEN FZero(SignXor(a, b))
  ELSE IF IsZero(b) THEN (IF IsZero(a) THEN NaN ELSE Inf(SignXor(a, b)))
  ELSE IF IsZero(a) THEN FZero(SignXor(a, b))
  ELSE DivFinite(a, b)

(* -1, 0 or 1 as |a| is below, equal to or above |b|; neither is NaN. *)
MagCmp(a, b) ==
  IF ~IsFinite(a) THEN (IF ~IsFinite(b) THEN 0 ELSE 1)
  ELSE IF ~IsFinite(b) THEN -1
  ELSE IF IsZero(a) THEN (IF IsZero(b) THEN 0 ELSE -1)
  ELSE IF IsZero(b) THEN 1
  ELSE IF Top(a) < Top(b) THEN -1
  ELSE IF Top(a) > Top(b) THEN 1
  ELSE BCmp(BShl(a.m, a.e - Min(a.e, b.e)), BShl(b.m, b.e - Min(a.e, b.e)))

(* -1, 0 or 1 as a is below, equal to or above b; neither is NaN. *)
FCmp(a, b) ==
  LET sa == IF IsZero(a) THEN 0 ELSE 1 - 2 * a.s
      sb == IF IsZero(b) THEN 0 ELSE 1 - 2 * b.s
  IN IF sa < sb THEN -1
     ELSE IF sa > sb THEN 1
     ELSE sa * MagCmp(a, b)

(* f64 <, false when an operand is NaN. *)
FLess(a, b) == ~IsNaN(a) /\ ~IsNaN(b) /\ FCmp(a, b) < 0

(* f64 ==, false when an operand is NaN; -0.0 == 0.0. *)
FEq(a, b) == ~IsNaN(a) /\ ~IsNaN(b) /\ FCmp(a, b) = 0

(* The f64 value of an integer below 2^31 in magnitude (exact). *)
F64(i) == Pack(IF i < 0 THEN 1 ELSE 0, BFromInt(Abs(i)), 0)

(* f64::approx_from(n).unwrap() of a u64 count: always succeeds; exact     *)
(* for the counts below 2^53.                                              *)
approx_from(n) == F64(n)


----------------
(* The Mean estimator *)

Mean_new == [n |-> 0, avg |-> Zero]

Mean_increment(m) == [m EXCEPT !.n = m.n + 1]

Mean_add_inner(m, delta) == [m EXCEPT !.avg = FAdd(m.avg, delta)]

Mean_is_empty(m) == m.n = 0

Mean_mean(m) == m.avg

Mean_len(m) == m.n

----------------------------------------------------------------------------
(* CoVariance *)

new ==
  [avg_x |-> Mean_new, avg_y |-> Mean_new,
   sum_2 |-> Zero, sum_2_x |-> Zero, sum_2_y |-> Zero]

increment_x_only(self) ==
  [self EXCEPT !.avg_x = Mean_increment(self.avg_x)]

increment(self) ==
  [self EXCEPT !.avg_x = Mean_increment(self.avg_x),
               !.avg_y = Mean_increment(self.avg_y)]


(* Mutant: n1 = n * n. *)
add_inner_n_squared(self, delta_x, delta_y) ==
  LET n  == approx_from(Mean_len(self.avg_x))
      n1 == FMul(n, n)
  IN [avg_x   |-> Mean_add_inner(self.avg_x, delta_x),
      avg_y   |-> Mean_add_inner(self.avg_y, delta_y),
      sum_2   |-> FAdd(self.sum_2,   FMul(FMul(delta_x, delta_y), n1)),
      sum_2_x |-> FAdd(self.sum_2_x, FMul(FMul(delta_x, delta_x), n1)),
      sum_2_y |-> FAdd(self.sum_2_y, FMul(FMul(delta_y, delta_y), n1))]

(* Mutant: n1 = n - 1, the factor n dropped. *)
add_inner_n_minus_1(self, delta_x, delta_y) ==
  LET n  == approx_from(Mean_len(self.avg_x))
      n1 == FSub(n, One)
  IN [avg_x   |-> Mean_add_inner(self.avg_x, delta_x),
      avg_y   |-> Mean_add_inner(self.avg_y, delta_y),
      sum_2   |-> FAdd(self.sum_2,   FMul(FMul(delta_x, delta_y), n1)),
      sum_2_x |-> FAdd(self.sum_2_x, FMul(FMul(delta_x, delta_x), n1)),
      sum_2_y |-> FAdd(self.sum_2_y, FMul(FMul(delta_y, delta_y), n1))]

(* Mutant: the sum_2 term scaled by n instead of n1. *)
add_inner_sum_2_scaled_n(self, delta_x, delta_y) ==
  LET n  == approx_from(Mean_len(self.avg_x))
      n1 == FMul(n, FSub(n, One))
  IN [avg_x   |-> Mean_add_inner(self.avg_x, delta_x),
      avg_y   |-> Mean_add_inner(self.avg_y, delta_y),
      sum_2   |-> FAdd(self.sum_2,   FMul(FMul(delta_x, delta_y), n)),
      sum_2_x |-> FAdd(self.sum_2_x, FMul(FMul(delta_x, delta_x), n1)),
      sum_2_y |-> FAdd(self.sum_2_y, FMul(FMul(delta_y, delta_y), n1))]

add_inner(self, delta_x, delta_y) ==
  LET n  == approx_from(Mean_len(self.avg_x))
      n1 == FMul(n, FSub(n, One))
  IN [avg_x   |-> Mean_add_inner(self.avg_x, delta_x),
      avg_y   |-> Mean_add_inner(self.avg_y, delta_y),
      sum_2   |-> FAdd(self.sum_2,   FMul(FMul(delta_x, delta_y), n1)),
      sum_2_x |-> FAdd(self.sum_2_x, FMul(FMul(delta_x, delta_x), n1)),
      sum_2_y |-> FAdd(self.sum_2_y, FMul(FMul(delta_y, delta_y), n1))]

is_empty(self) == Mean_is_empty(self.avg_x) \/ Mean_is_empty(self.avg_y)

mean_x(self) == Mean_mean(self.avg_x)

mean_y(self) == Mean_mean(self.avg_y)

len(self) == Mean_len(self.avg_x)

(* Mutant: the fallback taken only for an empty sample. *)
sample_covariance_guard_1(self) ==
  LET n == Mean_len(self.avg_x)
  IN IF n < 1 THEN Zero
     ELSE IF n - 1 < 0 THEN Panic
     ELSE FDiv(self.sum_2, approx_from(n - 1))

(* n - 1 is a u64 subtraction: below zero it panics (overflow check). *)
sample_covariance(self) ==
  LET n == Mean_len(self.avg_x)
  IN IF n < 2 THEN Zero
     ELSE IF n - 1 < 0 THEN Panic
     ELSE FDiv(self.sum_2, approx_from(n - 1))

(* Mutant: no fallback. *)
sample_variance_x_no_guard(self) ==
  LET n == Mean_len(self.avg_x)
  IN IF n - 1 < 0 THEN Panic
     ELSE FDiv(self.sum_2_x, approx_from(n - 1))

sample_variance_x(self) ==
  LET n == Mean_len(self.avg_x)
  IN IF n < 2 THEN Zero
     ELSE IF n - 1 < 0 THEN Panic
     ELSE FDiv(self.sum_2_x, approx_from(n - 1))

(* Mutant: no fallback. *)
sample_variance_y_no_guard(self) ==
  LET n == Mean_len(self.avg_y)
  IN IF n - 1 < 0 THEN Panic
     ELSE FDiv(self.sum_2_y, approx_from(n - 1))

sample_variance_y(self) ==
  LET n == Mean_len(self.avg_y)
  IN IF n < 2 THEN Zero
     ELSE IF n - 1 < 0 THEN Panic
     ELSE FDiv(self.sum_2_y, approx_from(n - 1))

(* Mutant: the count incremented after the deltas are computed. *)
add_increment_last(self, sample_x, sample_y) ==
  LET delta_x == FDiv(FSub(sample_x, Mean_mean(self.avg_x)),
                      approx_from(Mean_len(self.avg_x)))
      delta_y == FDiv(FSub(sample_y, Mean_mean(self.avg_y)),
                      approx_from(Mean_len(self.avg_y)))
  IN add_inner(increment(self), delta_x, delta_y)

(* Mutant: delta_x is the sample over n, the mean not subtracted. *)
add_no_mean(self, sample_x, sample_y) ==
  LET s1      == increment(self)
      delta_x == FDiv(sample_x, approx_from(Mean_len(s1.avg_x)))
      delta_y == FDiv(FSub(sample_y, Mean_mean(s1.avg_y)),
                      approx_from(Mean_len(s1.avg_y)))
  IN add_inner(s1, delta_x, delta_y)

add(self, sample_x, sample_y) ==
  LET s1      == increment(self)
      delta_x == FDiv(FSub(sample_x, Mean_mean(s1.avg_x)),
                      approx_from(Mean_len(s1.avg_x)))
      delta_y == FDiv(FSub(sample_y, Mean_mean(s1.avg_y)),
                      approx_from(Mean_len(s1.avg_y)))
  IN add_inner(s1, delta_x, delta_y)

----------------------------------------------------------------------------
(* The accumulator as a state machine *)

(* The accumulator held in the variables. *)
this ==
  [avg_x |-> avg_x, avg_y |-> avg_y,
   sum_2 |-> sum_2, sum_2_x |-> sum_2_x, sum_2_y |-> sum_2_y]

Init ==
  /\ avg_x = new.avg_x
  /\ avg_y = new.avg_y
  /\ sum_2 = new.sum_2
  /\ sum_2_x = new.sum_2_x
  /\ sum_2_y = new.sum_2_y
  /\ samples = <<>>
  /\ ret = [op |-> "new", val |-> Zero]
  /\ panicked = FALSE

Add(x, y) ==
  /\ ~panicked
  /\ Len(samples) < MaxAdds
  /\ LET r == add(this, F64(x), F64(y))
     IN /\ avg_x' = r.avg_x
        /\ avg_y' = r.avg_y
        /\ sum_2' = r.sum_2
        /\ sum_2_x' = r.sum_2_x
        /\ sum_2_y' = r.sum_2_y
  /\ samples' = Append(samples, <<x, y>>)
  /\ ret' = [op |-> "add", val |-> Zero]
  /\ UNCHANGED panicked

(* A query returning an f64: the accumulator is left alone. *)
FloatQuery(name, val) ==
  /\ ~panicked
  /\ ret' = [op |-> name, val |-> val]
  /\ panicked' = (val = Panic)
  /\ UNCHANGED <<avg_x, avg_y, sum_2, sum_2_x, sum_2_y, samples>>

(* A query returning a count or a flag. *)
PlainQuery(name, val) ==
  /\ ~panicked
  /\ ret' = [op |-> name, val |-> val]
  /\ UNCHANGED <<avg_x, avg_y, sum_2, sum_2_x, sum_2_y, samples, panicked>>

IsEmpty == PlainQuery("is_empty", is_empty(this))

GetLen == PlainQuery("len", len(this))

MeanX == FloatQuery("mean_x", mean_x(this))

MeanY == FloatQuery("mean_y", mean_y(this))

SampleCovariance == FloatQuery("sample_covariance", sample_covariance(this))

SampleVarianceX == FloatQuery("sample_variance_x", sample_variance_x(this))

SampleVarianceY == FloatQuery("sample_variance_y", sample_variance_y(this))

Next ==
  \/ \E x \in SampleValues, y \in SampleValues : Add(x, y)
  \/ IsEmpty
  \/ GetLen
  \/ MeanX
  \/ MeanY
  \/ SampleCovariance
  \/ SampleVarianceX
  \/ SampleVarianceY

Spec == Init /\ [][Next]_vars

(* 2^600, about 4e180: finite, but its square overflows. *)
Huge == Fin(0, <<1>>, 600)

(* Samples from the whole f64 domain: ordinary values, a finite value     *)
(* whose products overflow to infinity, and NaN.                           *)
ExtremeValues == {F64(-1), Zero, Huge, NaN}

(* add(x, y) with any f64 arguments. *)
AddExtreme(x, y) ==
  /\ ~panicked
  /\ Len(samples) < MaxExtremeAdds
  /\ LET r == add(this, x, y)
     IN /\ avg_x' = r.avg_x
        /\ avg_y' = r.avg_y
        /\ sum_2' = r.sum_2
        /\ sum_2_x' = r.sum_2_x
        /\ sum_2_y' = r.sum_2_y
  /\ samples' = Append(samples, <<x, y>>)
  /\ ret' = [op |-> "add", val |-> Zero]
  /\ UNCHANGED panicked

NextExtreme ==
  \/ \E x \in ExtremeValues, y \in ExtremeValues : AddExtreme(x, y)
  \/ IsEmpty
  \/ GetLen
  \/ MeanX
  \/ MeanY
  \/ SampleCovariance
  \/ SampleVarianceX
  \/ SampleVarianceY

SpecExtreme == Init /\ [][NextExtreme]_vars

----------------------------------------------------------------------------
(* Exact dyadic numbers [s, m, e] = (-1)^s * m * 2^e with m a big integer  *)
(* of any size: the distance between f64 results and exact references.     *)
(* A finite f64 is one of them.                                            *)

XOfInt(i) == [s |-> IF i < 0 THEN 1 ELSE 0, m |-> BFromInt(Abs(i)), e |-> 0]

XNeg(x) == [s |-> 1 - x.s, m |-> x.m, e |-> x.e]

XSum(x, y) == LET z == XAdd(x, y) IN [s |-> z.s, m |-> z.m, e |-> z.e]

XMulInt(x, i) ==
  [s |-> IF i < 0 THEN 1 - x.s ELSE x.s,
   m |-> BMul(x.m, BFromInt(Abs(i))),
   e |-> x.e]

XMulBig(x, b) == [s |-> x.s, m |-> BMul(x.m, b), e |-> x.e]

(* |x| <= |y|. *)
XMagLeq(x, y) ==
  LET e1 == Min(x.e, y.e)
  IN BCmp(BShl(x.m, x.e - e1), BShl(y.m, y.e - e1)) <= 0

(* |d| <= num / den for big integers num and den. *)
Within(d, num, den) == XMagLeq(XMulBig(d, den), [s |-> 0, m |-> num, e |-> 0])

(* |a - p / q| <= (sp / q) / t: the f64 a is within 1/t of the exact       *)
(* ratio p / q, relative to the scale sp / q.                              *)
CloseToRatio(a, p, sp, q, t) ==
  /\ IsFinite(a)
  /\ Within(XSum(XMulInt(a, q), XOfInt(-p)), sp, t)

(* |a - b| <= max(|a|, |b|) / t: relative agreement of two f64 values. *)
RelClose(a, b, t) ==
  /\ IsFinite(a) /\ IsFinite(b)
  /\ LET d == XMulBig(XSum(a, XNeg(b)), t)
     IN XMagLeq(d, a) \/ XMagLeq(d, b)

(* The tolerances 1e-9 and 1e-10 of the specification, half of 1e-10, and  *)
(* 1e-12, as the big integers 1 / tolerance.                               *)
Tol9 == BFromInt(1000 * 1000 * 1000)

Tol10 == BMul(BFromInt(100000), BFromInt(100000))

HalfTol10 == BMul(BFromInt(200000), BFromInt(100000))

Tol12 == BMul(BFromInt(1000 * 1000), BFromInt(1000 * 1000))

----------------------------------------------------------------------------
(* Reference quantities computed exactly from the recorded samples *)

(* The accumulator after feeding seq to a fresh one. *)
RECURSIVE Run(_)
Run(seq) ==
  IF seq = <<>> THEN new
  ELSE LET k == Len(seq)
       IN add(Run(SubSeq(seq, 1, k - 1)), F64(seq[k][1]), F64(seq[k][2]))

(* Coordinate c (1 for x, 2 for y) of the samples, summed. *)
RECURSIVE Sum(_, _)
Sum(seq, c) ==
  IF seq = <<>> THEN 0 ELSE seq[1][c] + Sum(Tail(seq), c)

RECURSIVE SumAbs(_, _)
SumAbs(seq, c) ==
  IF seq = <<>> THEN 0 ELSE Abs(seq[1][c]) + SumAbs(Tail(seq), c)

(* The sum over the samples i.. of (n s[a] - sa) * (n s[b] - sb): with sa  *)
(* and sb the coordinate sums, n^2 times the sum of the products of the    *)
(* deviations from the arithmetic means.                                   *)
RECURSIVE DevProdFrom(_, _, _, _, _, _)
DevProdFrom(seq, a, b, sa, sb, i) ==
  IF i > Len(seq) THEN 0
  ELSE (Len(seq) * seq[i][a] - sa) * (Len(seq) * seq[i][b] - sb)
       + DevProdFrom(seq, a, b, sa, sb, i + 1)

DevProd(seq, a, b) == DevProdFrom(seq, a, b, Sum(seq, a), Sum(seq, b), 1)

(* The sum over the samples of |n s[c] - sum|: n times the sum of the       *)
(* absolute deviations from the arithmetic mean.                           *)
RECURSIVE SumAbsDevFrom(_, _, _, _)
SumAbsDevFrom(seq, c, sc, i) ==
  IF i > Len(seq) THEN 0
  ELSE Abs(Len(seq) * seq[i][c] - sc) + SumAbsDevFrom(seq, c, sc, i + 1)

SumAbsDev(seq, c) == SumAbsDevFrom(seq, c, Sum(seq, c), 1)

(* (n ma + da) db + da n mb as a big integer.  With ma, mb the sums of     *)
(* the absolute values of two coordinates and da, db n times the sums of   *)
(* their absolute deviations, it is n^2 times the error scale              *)
(*   (sum|a| + sum|a - mean_a|) sum|b - mean_b| + sum|a - mean_a| sum|b|.  *)
ScaleOf(n, ma, da, db, mb) ==
  BAdd(BMul(BAdd(BMul(BFromInt(n), BFromInt(ma)), BFromInt(da)), BFromInt(db)),
       BMul(BMul(BFromInt(da), BFromInt(n)), BFromInt(mb)))

Scale(seq, a, b) ==
  ScaleOf(Len(seq), SumAbs(seq, a), SumAbsDev(seq, a),
          SumAbsDev(seq, b), SumAbs(seq, b))

(* The closed form sum((s[a] - mean_a)(s[b] - mean_b)) / (n - 1) is        *)
(* DevProd(seq, a, b) / ClosedDen(n).                                      *)
ClosedDen(n) == n * n * (n - 1)

Perms(n) == {p \in [1..n -> 1..n] : \A i, j \in 1..n : p[i] = p[j] => i = j}

Permute(seq, p) == [i \in 1..Len(seq) |-> seq[p[i]]]

ShiftX(seq, c) == [i \in 1..Len(seq) |-> <<seq[i][1] + c, seq[i][2]>>]

(* The sum of |x| + |x + c| over the samples. *)
RECURSIVE ShiftScale(_, _)
ShiftScale(seq, c) ==
  IF seq = <<>> THEN 0
  ELSE Abs(seq[1][1]) + Abs(seq[1][1] + c) + ShiftScale(Tail(seq), c)

AllOnDiagonal(seq) == \A i \in 1..Len(seq) : FEq(seq[i][1], seq[i][2])

AllFinite(seq) ==
  \A i \in 1..Len(seq) : IsFinite(seq[i][1]) /\ IsFinite(seq[i][2])

(* a <= b, a >= b as f64 compares them: false when either is NaN. *)
FLeq(a, b) == FLess(a, b) \/ FEq(a, b)

(* The same f64 value: equal, or both NaN. *)
Same(a, b) == FEq(a, b) \/ (IsNaN(a) /\ IsNaN(b))

LastSample == samples[Len(samples)]

(* The state a construction or an add has just left: every accumulator     *)
(* state is first reached this way, the queries do not change it.          *)
JustBuilt == ret.op \in {"new", "add"}

----------------------------------------------------------------------------
(* Claims *)

(* C1 (as stated): after n >= 2 adds on a fresh accumulator,               *)
(* sample_covariance, sample_variance_x and sample_variance_y equal the    *)
(* closed forms sum((x-mean_x)(y-mean_y))/(n-1), sum((x-mean_x)^2)/(n-1)   *)
(* and sum((y-mean_y)^2)/(n-1) within the relative tolerance 1e-9.         *)
C1_ClosedFormRelative ==
  Len(samples) >= 2 =>
    LET q == ClosedDen(Len(samples))
        c == DevProd(samples, 1, 2)
        x == DevProd(samples, 1, 1)
        y == DevProd(samples, 2, 2)
    IN /\ CloseToRatio(sample_covariance(this), c, BFromInt(Abs(c)), q, Tol9)
       /\ CloseToRatio(sample_variance_x(this), x, BFromInt(Abs(x)), q, Tol9)
       /\ CloseToRatio(sample_variance_y(this), y, BFromInt(Abs(y)), q, Tol9)

(* C1 (amended): after n >= 2 adds the covariance and the two variances    *)
(* equal their closed forms within 1e-9 times the error scale              *)
(* ((sum|a| + sum|a-mean_a|) sum|b-mean_b| + sum|a-mean_a| sum|b|)/(n-1)   *)
(* of the pair of coordinates (a, b) concerned.                            *)
C1_ClosedForm ==
  Len(samples) >= 2 =>
    LET q == ClosedDen(Len(samples))
    IN /\ CloseToRatio(sample_covariance(this), DevProd(samples, 1, 2),
                       Scale(samples, 1, 2), q, Tol9)
       /\ CloseToRatio(sample_variance_x(this), DevProd(samples, 1, 1),
                       Scale(samples, 1, 1), q, Tol9)
       /\ CloseToRatio(sample_variance_y(this), DevProd(samples, 2, 2),
                       Scale(samples, 2, 2), q, Tol9)

C1_Witness ==
  /\ Len(samples) = 4
  /\ DevProd(samples, 1, 2) = 0
  /\ ret.op = "sample_covariance"
  /\ ~IsZero(ret.val)

(* C2: a fresh accumulator, before any add, reports len 0, is_empty true   *)
(* and 0.0 for both means, the covariance and both variances.              *)
C2_EmptyState ==
  samples = <<>> =>
    /\ len(this) = 0
    /\ is_empty(this) = TRUE
    /\ FEq(mean_x(this), Zero)
    /\ FEq(mean_y(this), Zero)
    /\ FEq(sample_covariance(this), Zero)
    /\ FEq(sample_variance_x(this), Zero)
    /\ FEq(sample_variance_y(this), Zero)

C2_Witness ==
  /\ samples = <<>>
  /\ ret.op = "sample_variance_x"
  /\ ret.val = Zero

(* C3 (as stated): after exactly one add(a, b) on a fresh accumulator,     *)
(* for every pair (a, b), len is 1, mean_x() == a, mean_y() == b, and the  *)
(* covariance and both variances are 0.0 by the count < 2 fallback.        *)
C3_SingleSampleAnyPair ==
  Len(samples) = 1 =>
    /\ len(this) = 1
    /\ FEq(mean_x(this), samples[1][1])
    /\ FEq(mean_y(this), samples[1][2])
    /\ FEq(sample_covariance(this), Zero)
    /\ FEq(sample_variance_x(this), Zero)
    /\ FEq(sample_variance_y(this), Zero)

(* C3 (amended): the same, with mean_x() == a when a is not NaN and        *)
(* mean_x() NaN when a is NaN, and likewise mean_y() and b.                *)
C3_SingleSample ==
  Len(samples) = 1 =>
    /\ len(this) = 1
    /\ IF IsNaN(samples[1][1]) THEN IsNaN(mean_x(this))
       ELSE FEq(mean_x(this), samples[1][1])
    /\ IF IsNaN(samples[1][2]) THEN IsNaN(mean_y(this))
       ELSE FEq(mean_y(this), samples[1][2])
    /\ FEq(sample_covariance(this), Zero)
    /\ FEq(sample_variance_x(this), Zero)
    /\ FEq(sample_variance_y(this), Zero)

C3_Witness ==
  /\ Len(samples) = 1
  /\ samples[1] = <<Huge, F64(-1)>>
  /\ ret.op = "sample_covariance"
  /\ ret.val = Zero
  /\ FEq(mean_x(this), Huge)
  /\ IsNaN(sum_2_x)

(* C4: the X and Y counts are equal and equal the number of adds so far;   *)
(* each add raises len by exactly 1 and no step lowers it; is_empty holds  *)
(* exactly when len is 0.                                                  *)
C4_Lockstep ==
  /\ [](/\ Mean_len(avg_x) = Mean_len(avg_y)
        /\ len(this) = Len(samples)
        /\ (is_empty(this) <=> len(this) = 0))
  /\ [][/\ avg_x'.n >= avg_x.n
        /\ avg_y'.n >= avg_y.n
        /\ (ret'.op = "add" /\ samples' # samples =>
              avg_x'.n = avg_x.n + 1 /\ avg_y'.n = avg_y.n + 1)]_vars

C4_Witness ==
  /\ Len(samples) = 3
  /\ ret.op = "is_empty"
  /\ ret.val = FALSE

(* C5 (as stated): feeding the same pairs to a fresh accumulator in any    *)
(* other order yields the same len and, within the relative tolerance      *)
(* 1e-10, the same means, covariance and variances.                        *)
C5_OrderRelative ==
  JustBuilt =>
  \A p \in Perms(Len(samples)) :
    LET s == Run(Permute(samples, p))
    IN /\ len(s) = len(this)
       /\ RelClose(mean_x(s), mean_x(this), Tol10)
       /\ RelClose(mean_y(s), mean_y(this), Tol10)
       /\ RelClose(sample_variance_x(s), sample_variance_x(this), Tol10)
       /\ RelClose(sample_variance_y(s), sample_variance_y(this), Tol10)
       /\ RelClose(sample_covariance(s), sample_covariance(this), Tol10)

(* C5 (amended): whatever the order the pairs were added in, len is their  *)
(* number and every statistic lies within half of 1e-10 times a scale of   *)
(* a value, scale and value depending on the multiset of pairs alone: the  *)
(* means of sum(x)/n with the scale sum(|x|)/n, the covariance and the     *)
(* variances of their closed forms with the error scale of C1.  Any two    *)
(* orders therefore agree within 1e-10 times that scale.                   *)
C5_OrderInvariance ==
  LET n == Len(samples)
      q == ClosedDen(n)
  IN /\ len(this) = n
     /\ n >= 1 =>
          /\ CloseToRatio(mean_x(this), Sum(samples, 1),
                          BFromInt(SumAbs(samples, 1)), n, HalfTol10)
          /\ CloseToRatio(mean_y(this), Sum(samples, 2),
                          BFromInt(SumAbs(samples, 2)), n, HalfTol10)
     /\ n >= 2 =>
          /\ CloseToRatio(sample_covariance(this), DevProd(samples, 1, 2),
                          Scale(samples, 1, 2), q, HalfTol10)
          /\ CloseToRatio(sample_variance_x(this), DevProd(samples, 1, 1),
                          Scale(samples, 1, 1), q, HalfTol10)
          /\ CloseToRatio(sample_variance_y(this), DevProd(samples, 2, 2),
                          Scale(samples, 2, 2), q, HalfTol10)

C5_Witness ==
  /\ Len(samples) = 4
  /\ samples[1] # samples[2]
  /\ samples[2] # samples[3]
  /\ samples[1] # samples[3]
  /\ samples[3] # samples[4]
  /\ ~IsZero(sum_2)
  /\ Run(<<samples[4], samples[3], samples[2], samples[1]>>).sum_2 # sum_2
  /\ JustBuilt

(* C6 (as stated): if every sample so far had x == y, then                 *)
(* sum_2 == sum_2_x == sum_2_y and mean_x() == mean_y(), so the covariance *)
(* equals both variances.                                                  *)
C6_SingleVariableEqual ==
  AllOnDiagonal(samples) =>
    /\ FEq(sum_2, sum_2_x)
    /\ FEq(sum_2, sum_2_y)
    /\ FEq(mean_x(this), mean_y(this))
    /\ FEq(sample_covariance(this), sample_variance_x(this))
    /\ FEq(sample_covariance(this), sample_variance_y(this))

(* C6 (amended): if every sample so far had x == y, then sum_2, sum_2_x    *)
(* and sum_2_y are the same value, and so are the two means and the        *)
(* covariance and the two variances: equal under ==, or all of them NaN.   *)
C6_SingleVariable ==
  AllOnDiagonal(samples) =>
    /\ Same(sum_2, sum_2_x)
    /\ Same(sum_2, sum_2_y)
    /\ Same(mean_x(this), mean_y(this))
    /\ Same(sample_covariance(this), sample_variance_x(this))
    /\ Same(sample_covariance(this), sample_variance_y(this))

C6_Witness ==
  /\ Len(samples) = 2
  /\ AllOnDiagonal(samples)
  /\ IsFinite(sum_2)
  /\ ~IsZero(sum_2)
  /\ ret.op = "sample_variance_y"
  /\ ~IsZero(ret.val)

(* The offset property for the shift c: the run on (x + c, y) leaves       *)
(* mean_y and sample_variance_y unchanged, sample_variance_x and           *)
(* sample_covariance within 1e-12 times the sum of the error scales of     *)
(* the two runs, and mean_x within 1e-12 sum(|x| + |x + c|)/n of the       *)
(* unshifted mean_x plus c.                                                *)
OffsetHolds(c) ==
  LET s  == Run(ShiftX(samples, c))
      n  == Len(samples)
      mx == SumAbs(ShiftX(samples, c), 1)
      dx == XSum(sample_variance_x(s), XNeg(sample_variance_x(this)))
      dc == XSum(sample_covariance(s), XNeg(sample_covariance(this)))
      dm == XSum(XSum(mean_x(s), XNeg(mean_x(this))), XOfInt(-c))
  IN /\ FEq(sample_variance_y(s), sample_variance_y(this))
     /\ FEq(mean_y(s), mean_y(this))
     /\ IsFinite(sample_variance_x(s)) /\ IsFinite(sample_covariance(s))
     /\ IsFinite(mean_x(s))
     /\ Within(dx,
               BAdd(Scale(samples, 1, 1),
                    ScaleOf(n, mx, SumAbsDev(samples, 1),
                            SumAbsDev(samples, 1), mx)),
               BMul(Tol12, BFromInt(Max(1, ClosedDen(n)))))
     /\ Within(dc,
               BAdd(Scale(samples, 1, 2),
                    ScaleOf(n, mx, SumAbsDev(samples, 1),
                            SumAbsDev(samples, 2), SumAbs(samples, 2))),
               BMul(Tol12, BFromInt(Max(1, ClosedDen(n)))))
     /\ Within(dm, BFromInt(ShiftScale(samples, c)),
               BMul(Tol12, BFromInt(Max(1, n))))

(* C7 (as stated): for any sequence of pairs and any constant c, running   *)
(* on (x + c, y) yields the same variances and covariance and a mean_x     *)
(* shifted by c, within floating-point tolerance.                          *)
C7_OffsetAnySequence ==
  JustBuilt => \A c \in Offsets : OffsetHolds(c)

(* C7 (amended): the same for any non-empty sequence of pairs; for the     *)
(* empty sequence mean_x is 0.0 in both runs.                              *)
C7_OffsetInvariance ==
  JustBuilt =>
    /\ Len(samples) >= 1 => \A c \in Offsets : OffsetHolds(c)
    /\ Len(samples) = 0 =>
         \A c \in Offsets :
           /\ FEq(mean_x(Run(ShiftX(samples, c))), Zero)
           /\ FEq(mean_x(this), Zero)

C7_Witness ==
  /\ Len(samples) = 4
  /\ ~IsZero(sum_2_x)
  /\ ~IsZero(sum_2)
  /\ Run(ShiftX(samples, 100000000)).sum_2_x # sum_2_x
  /\ JustBuilt

(* C8: no sequence of add and query calls panics, whatever the samples:    *)
(* no query result is a panic, the n - 1 of the three sample_* queries is  *)
(* evaluated only from n = 2 on, and add divides by a count that is at     *)
(* least 1.                                                                *)
C8_NoPanic ==
  /\ ~panicked
  /\ sample_covariance(this) # Panic
  /\ sample_variance_x(this) # Panic
  /\ sample_variance_y(this) # Panic
  /\ mean_x(this) # Panic
  /\ mean_y(this) # Panic
  /\ (ret.op = "add" => Mean_len(avg_x) >= 1 /\ Mean_len(avg_y) >= 1)

C8_Witness ==
  /\ Len(samples) = 2
  /\ ret.op = "sample_variance_y"
  /\ IsNaN(ret.val)
  /\ ~panicked

(* The step C9 describes: n is the incremented count, the deltas use the   *)
(* means from before the sample and divide by n, then the means advance    *)
(* by the deltas and the sums by delta * delta * n * (n - 1).              *)
OrderedStep(self, x, y) ==
  LET n  == self.avg_x.n + 1
      nf == F64(n)
      dx == FDiv(FSub(x, self.avg_x.avg), nf)
      dy == FDiv(FSub(y, self.avg_y.avg), nf)
      n1 == F64(n * (n - 1))
  IN [avg_x   |-> [n |-> n, avg |-> FAdd(self.avg_x.avg, dx)],
      avg_y   |-> [n |-> self.avg_y.n + 1, avg |-> FAdd(self.avg_y.avg, dy)],
      sum_2   |-> FAdd(self.sum_2,   FMul(FMul(dx, dy), n1)),
      sum_2_x |-> FAdd(self.sum_2_x, FMul(FMul(dx, dx), n1)),
      sum_2_y |-> FAdd(self.sum_2_y, FMul(FMul(dy, dy), n1)),
      fin     |-> IsFinite(FMul(dx, dy)),
      fin_x   |-> IsFinite(FMul(dx, dx)),
      fin_y   |-> IsFinite(FMul(dy, dy))]

(* C9 (as stated): an add(x, y) first increments both counts, then         *)
(* computes delta = (sample - old mean) / n with n the incremented count,  *)
(* then advances each mean by its delta and each sum by                    *)
(* delta*delta*n*(n-1); the first add leaves the three sums at 0.          *)
C9_AddOrderFirstZero ==
  [][ret'.op = "add" /\ samples' # samples =>
       \E x \in ExtremeValues, y \in ExtremeValues :
         /\ samples' = Append(samples, <<x, y>>)
         /\ LET e == OrderedStep(this, x, y)
            IN /\ avg_x' = e.avg_x
               /\ avg_y' = e.avg_y
               /\ sum_2' = e.sum_2
               /\ sum_2_x' = e.sum_2_x
               /\ sum_2_y' = e.sum_2_y
               /\ (Len(samples) = 0 =>
                     /\ FEq(sum_2', Zero)
                     /\ FEq(sum_2_x', Zero)
                     /\ FEq(sum_2_y', Zero))
    ]_vars

(* C9 (amended): the same order of steps; the first add leaves each of     *)
(* the three sums at 0 when the product of its two deltas is finite, and   *)
(* at NaN when that product is infinite or NaN.                            *)
C9_AddOrder ==
  [][ret'.op = "add" /\ samples' # samples =>
       \E x \in ExtremeValues, y \in ExtremeValues :
         /\ samples' = Append(samples, <<x, y>>)
         /\ LET e == OrderedStep(this, x, y)
            IN /\ avg_x' = e.avg_x
               /\ avg_y' = e.avg_y
               /\ sum_2' = e.sum_2
               /\ sum_2_x' = e.sum_2_x
               /\ sum_2_y' = e.sum_2_y
               /\ (Len(samples) = 0 =>
                     /\ IF e.fin THEN FEq(sum_2', Zero) ELSE IsNaN(sum_2')
                     /\ IF e.fin_x THEN FEq(sum_2_x', Zero)
                        ELSE IsNaN(sum_2_x')
                     /\ IF e.fin_y THEN FEq(sum_2_y', Zero)
                        ELSE IsNaN(sum_2_y'))
    ]_vars

C9_Witness ==
  /\ Len(samples) = 2
  /\ ret.op = "add"
  /\ IsFinite(sum_2) /\ ~IsZero(sum_2)
  /\ IsFinite(sum_2_x) /\ ~IsZero(sum_2_x)
  /\ IsFinite(sum_2_y) /\ ~IsZero(sum_2_y)
  /\ LastSample # <<Zero, Zero>>

(* C10: for finite inputs, sum_2_x and sum_2_y are                         *)
(* non-negative in every state and no add lowers them, so neither sample   *)
(* variance is ever negative; sum_2 may be negative.                       *)
C10_NonNegativeFinite ==
  /\ [](AllFinite(samples) =>
          /\ FLeq(Zero, sum_2_x)
          /\ FLeq(Zero, sum_2_y)
          /\ ~FLess(sample_variance_x(this), Zero)
          /\ ~FLess(sample_variance_y(this), Zero))
  /\ [][AllFinite(samples') =>
          FLeq(sum_2_x, sum_2_x') /\ FLeq(sum_2_y, sum_2_y')]_vars

====
